---- MODULE Spec2Model ----
(***************************************************************************)
(* Model of the mandelbrot generator in src/src/main.rs: the coordinate    *)
(* mapper (idx2point, point2idx), the escape-time evaluator (mandelbrot),  *)
(* the field partitioner (gen_mandelbrot, its worker threads and its join  *)
(* loop), the palette interpolator (color_for_val_with_config),            *)
(* validate_config and the part of main that validates, generates and      *)
(* rasters.                                                                *)
(*                                                                         *)
(* Numbers.  The program computes in f32.  The model computes in exact     *)
(* integer arithmetic and draws its inputs from the sets on which every    *)
(* f32 operation of the program is exact, so that both agree there:        *)
(*   - window origins and sizes are integers and ppu is 0 or 1, so every   *)
(*     sample point (cx, cy) is a point of the integer lattice; before an  *)
(*     orbit leaves the radius-2 disc its coordinates are at most 2 in     *)
(*     magnitude, so every intermediate value is a small integer;          *)
(*   - color_steps is a power of two and palette components are integers   *)
(*     in 0..255, so t, p and each channel are dyadic rationals with a     *)
(*     denominator that divides color_steps; they are carried as           *)
(*     numerators over color_steps;                                        *)
(*   - u32 values stay far below 2^24, where `as f32` is exact and no u32  *)
(*     operation overflows.                                                *)
(***************************************************************************)
EXTENDS Integers, Sequences, FiniteSets

VARIABLES
  config,        \* main: the decoded Config (line 229)
  cpus,          \* num_cpus::get() (line 80)
  pc,            \* position of the main thread
  size,          \* main: Size {width: img_width, height: img_height} (line 278)
  data_size,     \* gen_mandelbrot local (line 82)
  thread_work,   \* gen_mandelbrot local (line 87)
  thread_start,  \* gen_mandelbrot local (line 88)
  thread_end,    \* gen_mandelbrot local (line 89)
  t,             \* gen_mandelbrot: index of the spawn loop (line 93)
  guards,        \* gen_mandelbrot: the spawned threads, in spawn order (line 85)
  data,          \* gen_mandelbrot: the Field under construction (line 83)
  joined,        \* gen_mandelbrot: guards consumed by the join loop (line 135)
  imgdata,       \* main: the Field gen_mandelbrot returned (line 283)
  ry, rx,        \* main: raster loop counters y, x (lines 295, 296)
  reads,         \* main: the indices imgdata was read at, in order (line 299)
  output,        \* main: the (r, g, b) triples put into linebuf, in order
  mb,            \* one call of mandelbrot: its arguments, locals and position
  val,           \* one call of color_for_val_with_config: its argument val
  rgb            \* ... and its result

vars == << config, cpus, pc, size, data_size, thread_work, thread_start,
           thread_end, t, guards, data, joined, imgdata, ry, rx, reads,
           output, mb, val, rgb >>

(***************************************************************************)
(* Bounds of the model.                                                    *)
(***************************************************************************)
MaxDim == 4          \* grid widths 0..MaxDim (grid heights are 0, 1 and 4)
MaxLimit == 20       \* mandelbrot alone: limits 0..MaxLimit
MaxCoord == 3        \* mandelbrot alone: cx, cy in -MaxCoord..MaxCoord
MaxPixels == 12      \* partition alone: data_size in 0..MaxPixels
MaxWorkers == 8      \* partition alone: thread_count in 1..MaxWorkers
MaxStepExp == 2      \* palette alone: color_steps in {2^0 .. 2^MaxStepExp}
MaxCount == 9        \* palette alone: val in 0..MaxCount
MaxPalette == 3      \* palette alone: palettes of 0..MaxPalette colours

(***************************************************************************)
(* Program constants.                                                      *)
(***************************************************************************)
LimitCap == 10000    \* validate_config: "limit is over 10,000"
Components == 3      \* validate_config: the one accepted component count

(***************************************************************************)
(* Coordinate mapper.                                                      *)
(***************************************************************************)
\* fn idx2point(idx: u32, width: u32) -> Point.  width = 0 panics; callers of
\* this operator test for it first.
idx2point(idx, width) == [x |-> idx % width, y |-> idx \div width]

point2idx_swapped(p, width) == width * p.x + p.y

\* fn point2idx(p: Point, width: u32) -> u32
point2idx(p, width) == width * p.y + p.x

\* gen_mandelbrot, lines 115-119: the window point of pixel p.  px * width of the
\* window is the integer p.x * window.size.width / t_size.width on the model's
\* inputs (window.size = size).
WindowPoint(p, t_size, t_window) ==
  [x |-> t_window.origin.x + (p.x * t_window.size.width) \div t_size.width,
   y |-> (t_window.origin.y + t_window.size.height)
           - (p.y * t_window.size.height) \div t_size.height]

(***************************************************************************)
(* Escape-time evaluator.                                                  *)
(***************************************************************************)
Escaped_ge(x, y) == x * x + y * y >= 4

\* line 66: if sum > 4.0 { break }
Escaped(x, y) == x * x + y * y > 4

\* lines 69-71: one completed iteration
MandelBody(s, cx, cy) ==
  [x |-> s.x * s.x - s.y * s.y + cx,
   y |-> (s.x * s.y) * 2 + cy,
   count |-> s.count + 1]

RECURSIVE MandelLoop(_, _, _, _)
\* lines 61-72: the while loop, from the locals s
MandelLoop(s, cx, cy, limit) ==
  IF s.count < limit /\ ~Escaped(s.x, s.y)
    THEN MandelLoop(MandelBody(s, cx, cy), cx, cy, limit)
    ELSE s.count

mandelbrot_zero_seed(cx, cy, limit) ==
  MandelLoop([x |-> 0, y |-> 0, count |-> 0], cx, cy, limit)

\* fn mandelbrot(cx: f32, cy: f32, limit: u32) -> u32
mandelbrot(cx, cy, limit) ==
  MandelLoop([x |-> cx, y |-> cy, count |-> 0], cx, cy, limit)

\* gen_mandelbrot, lines 113-121: the count a worker pushes for index i.  With a
\* grid height of 0.0 the quotient p.y / t_size.height is NaN or infinite and cy
\* is NaN; `sum > 4.0` is then false at every iteration, so the loop runs to limit.
PixelValue(i, t_size, t_window, t_limit) ==
  IF t_size.height = 0
    THEN t_limit
    ELSE LET c == WindowPoint(idx2point(i, t_size.width), t_size, t_window)
         IN  mandelbrot(c.x, c.y, t_limit)

(***************************************************************************)
(* Field partitioner: the pure parts of gen_mandelbrot.                    *)
(***************************************************************************)
\* line 87: (data_size as f32 / thread_count as f32).ceil() as u32.  Below 2^24
\* the f32 quotient cannot round onto or across an integer, so it is the ceiling
\* of the exact quotient.
ThreadWork(size_, thread_count) == (size_ + thread_count - 1) \div thread_count

ClampEnd_none(i, thread_count, end, size_) == end

\* lines 98-104: thread_end as the thread spawned at iteration i gets it
ClampEnd(i, thread_count, end, size_) ==
  IF i = thread_count - 1 THEN size_
  ELSE IF end > size_ THEN size_
  ELSE end

RangeHasNext_inclusive(i, end) == i <= end

\* line 112: for i in thread_start..thread_end, at loop index i
RangeHasNext(i, end) == i < end

JoinReady_nowait(g) == TRUE

\* line 136: g.join() returns once the thread has ended
JoinReady(g) == g.state # "running"

JoinOrder_reversed(n, k) == n - k

\* line 135: for g in guards; the guard taken when k guards have been joined
JoinOrder(n, k) == k + 1

(***************************************************************************)
(* Palette interpolator.                                                   *)
(***************************************************************************)
\* fn rbg_from_palette(palette, idx); idx counts from 0
rbg_from_palette(palette, idx) ==
  << palette[idx + 1][1], palette[idx + 1][2], palette[idx + 1][3] >>

\* `as usize` / `as u8` of a float: truncation toward zero, here of num / den
TruncDiv(num, den) == IF num >= 0 THEN num \div den ELSE -((-num) \div den)

PaletteT_nomod(v, steps, len) == v * len

\* line 159: (val as f32 % steps) * (palette.len() as f32) / steps, as the
\* numerator of a fraction over steps
PaletteT(v, steps, len) == (v % steps) * len

\* line 160: val as usize % palette.len()
PaletteLeft(tnum, steps, len) == TruncDiv(tnum, steps) % len

\* line 161
PaletteRight(left, len) == (left + 1) % len

PaletteP_zero(tnum, steps, left) == 0

\* line 163: p = val - left as f32, as the numerator of a fraction over steps
PaletteP(tnum, steps, left) == tnum - left * steps

\* lines 166-168: (c1 + (c2 - c1) * p) as u8
Channel(c1, c2, pnum, steps) == TruncDiv(c1 * steps + (c2 - c1) * pnum, steps)

\* lines 159-161: with an empty palette `% palette.len()` divides by zero
ColorPanics(v, conf) == v # conf.limit /\ Len(conf.color_palette) = 0

\* fn color_for_val_with_config(val: u32, config: &Config) -> (u8, u8, u8),
\* where it does not panic
color_for_val_with_config(v, conf) ==
  IF v = conf.limit
    THEN << 0, 0, 0 >>
    ELSE LET steps == conf.color_steps
             palette == conf.color_palette
             tnum == PaletteT(v, steps, Len(palette))
             left == PaletteLeft(tnum, steps, Len(palette))
             right == PaletteRight(left, Len(palette))
             p == PaletteP(tnum, steps, left)
             c1 == rbg_from_palette(palette, left)
             c2 == rbg_from_palette(palette, right)
         IN  << Channel(c1[1], c2[1], p, steps),
                Channel(c1[2], c2[2], p, steps),
                Channel(c1[3], c2[3], p, steps) >>

(***************************************************************************)
(* Configuration.                                                          *)
(***************************************************************************)
\* fn validate_config(conf: &Config): TRUE when it returns, FALSE when it panics
validate_config(conf) ==
  /\ ~(conf.limit > LimitCap)
  /\ conf.color_components = Components
  /\ \A k \in 1..Len(conf.color_palette) :
       Len(conf.color_palette[k]) = conf.color_components

(***************************************************************************)
(* Inputs.                                                                 *)
(***************************************************************************)
ScenarioPalette == << << 0, 0, 0 >>, << 255, 255, 255 >> >>

\* A palette whose second colour has two components
ShortPalette == << << 0, 0, 0 >>, << 255, 255 >> >>

Config(ppu, limit, steps, components, palette, w, h) ==
  [ppu |-> ppu, limit |-> limit, color_steps |-> steps,
   color_components |-> components, color_palette |-> palette,
   window |-> [origin |-> [x |-> -2, y |-> -2],
               size |-> [width |-> w, height |-> h]]]

\* The configurations main may decode: valid and invalid limits, component
\* counts and palettes over windows of 0..MaxDim by 0 or 1 units, and the valid
\* ones over windows of 0..MaxDim by 4 units (the 4 by 4 scenario among them).
Configs ==
  { Config(ppu, limit, 2, components, palette, w, h) :
      ppu \in {0, 1}, limit \in {50, LimitCap + 1},
      components \in {Components, Components + 1},
      palette \in {<< >>, ScenarioPalette, ShortPalette},
      w \in 0..MaxDim, h \in {0, 1} }
  \cup { Config(1, 50, 2, Components, ScenarioPalette, w, 4) :
           w \in 0..MaxDim }

\* Worker counts num_cpus::get() may report; the spec names 1, 2 and 7.
CpuCounts == {1, 2, 7}

NoCall == [pc |-> "idle"]

(***************************************************************************)
(* main and gen_mandelbrot.                                                *)
(***************************************************************************)
Init ==
  /\ config \in Configs
  /\ cpus \in CpuCounts
  /\ pc = "start"
  /\ size = [width |-> 0, height |-> 0]
  /\ data_size = 0 /\ thread_work = 0 /\ thread_start = 0 /\ thread_end = 0
  /\ t = 0 /\ guards = << >> /\ data = << >> /\ joined = 0
  /\ imgdata = << >> /\ ry = 0 /\ rx = 0 /\ reads = << >> /\ output = << >>
  /\ mb = NoCall /\ val = 0 /\ rgb = << >>

\* main, line 235: validate_config(&config) returns or panics
Validate ==
  /\ pc = "start"
  /\ pc' = IF validate_config(config) THEN "validated" ELSE "panic_config"
  /\ UNCHANGED << config, cpus, size, data_size, thread_work, thread_start,
                  thread_end, t, guards, data, joined, imgdata, ry, rx, reads,
                  output, mb, val, rgb >>

\* main, lines 273-283, and gen_mandelbrot, lines 76-91: up to the spawn loop
GenBegin ==
  /\ pc = "validated"
  /\ LET width == config.ppu * config.window.size.width
         height == config.ppu * config.window.size.height
     IN  /\ size' = [width |-> width, height |-> height]
         /\ data_size' = width * height
         /\ thread_work' = ThreadWork(width * height, cpus)
         /\ thread_end' = 0 + ThreadWork(width * height, cpus)
  /\ thread_start' = 0
  /\ t' = 0 /\ guards' = << >> /\ data' = << >> /\ joined' = 0
  /\ pc' = "gen"
  /\ UNCHANGED << config, cpus, imgdata, ry, rx, reads, output, mb, val, rgb >>

\* gen_mandelbrot, lines 93-133: one iteration of the spawn loop
Spawn ==
  /\ pc = "gen"
  /\ t < cpus
  /\ LET end == ClampEnd(t, cpus, thread_end, data_size)
     IN  /\ guards' = Append(guards, [thread_start |-> thread_start,
                                      thread_end |-> end,
                                      i |-> thread_start,
                                      thread_data |-> << >>,
                                      state |-> "running"])
         /\ thread_start' = end
         /\ thread_end' = end + thread_work
  /\ t' = t + 1
  /\ UNCHANGED << config, cpus, pc, size, data_size, thread_work, data, joined,
                  imgdata, ry, rx, reads, output, mb, val, rgb >>

\* gen_mandelbrot, lines 106-127: one step of spawned thread w: the next index
\* of its range, or its end.  thread_end - thread_start (line 109) underflowing
\* (overflow checks on) and idx2point dividing by a zero width (line 48) panic
\* the thread; neither happens on the ranges Spawn hands out.
WorkerStep(w) ==
  /\ pc = "gen"
  /\ w \in 1..Len(guards)
  /\ guards[w].state = "running"
  /\ LET g == guards[w]
     IN  guards' = [guards EXCEPT ![w] =
           IF g.thread_end < g.thread_start
             THEN [g EXCEPT !.state = "panicked"]
           ELSE IF RangeHasNext(g.i, g.thread_end)
             THEN IF size.width = 0
                    THEN [g EXCEPT !.state = "panicked"]
                    ELSE [g EXCEPT
                           !.thread_data = Append(g.thread_data,
                              PixelValue(g.i, size, config.window, config.limit)),
                           !.i = g.i + 1]
           ELSE [g EXCEPT !.state = "finished"]]
  /\ UNCHANGED << config, cpus, pc, size, data_size, thread_work, thread_start,
                  thread_end, t, data, joined, imgdata, ry, rx, reads, output,
                  mb, val, rgb >>

\* gen_mandelbrot, lines 135-137: one iteration of the join loop.  join() blocks
\* until the thread has ended; unwrap() panics when the thread panicked.
Join ==
  /\ pc = "gen"
  /\ t = cpus
  /\ joined < Len(guards)
  /\ LET g == guards[JoinOrder(Len(guards), joined)]
     IN  /\ JoinReady(g)
         /\ IF g.state = "panicked"
              THEN pc' = "panic_join" /\ UNCHANGED << data, joined >>
              ELSE /\ data' = data \o g.thread_data
                   /\ joined' = joined + 1
                   /\ pc' = pc
  /\ UNCHANGED << config, cpus, size, data_size, thread_work, thread_start,
                  thread_end, t, guards, imgdata, ry, rx, reads, output, mb,
                  val, rgb >>

\* gen_mandelbrot, line 139, and main, line 283: the Field is returned
Return ==
  /\ pc = "gen"
  /\ t = cpus
  /\ joined = Len(guards)
  /\ imgdata' = data
  /\ ry' = 0 /\ rx' = 0
  /\ pc' = "raster"
  /\ UNCHANGED << config, cpus, size, data_size, thread_work, thread_start,
                  thread_end, t, guards, data, joined, reads, output, mb, val,
                  rgb >>

\* main, lines 295-310: one step of the raster loops: a pixel of row ry, the end
\* of row ry, or the end of the rows.  imgdata[idx] panics out of bounds;
\* color_for_val_with_config panics on an empty palette.
Raster ==
  /\ pc = "raster"
  /\ IF ry < size.height
       THEN IF rx < size.width
              THEN LET idx == point2idx([x |-> rx, y |-> ry], size.width)
                   IN  IF ~(idx < Len(imgdata))
                         THEN pc' = "panic_index"
                              /\ UNCHANGED << ry, rx, reads, output >>
                       ELSE IF ColorPanics(imgdata[idx + 1], config)
                         THEN pc' = "panic_palette"
                              /\ reads' = Append(reads, idx)
                              /\ UNCHANGED << ry, rx, output >>
                       ELSE /\ reads' = Append(reads, idx)
                            /\ output' = Append(output,
                                 color_for_val_with_config(imgdata[idx + 1], config))
                            /\ rx' = rx + 1
                            /\ UNCHANGED << ry, pc >>
              ELSE /\ ry' = ry + 1
                   /\ rx' = 0
                   /\ UNCHANGED << pc, reads, output >>
       ELSE pc' = "done" /\ UNCHANGED << ry, rx, reads, output >>
  /\ UNCHANGED << config, cpus, size, data_size, thread_work, thread_start,
                  thread_end, t, guards, data, joined, imgdata, mb, val, rgb >>

Next ==
  \/ Validate
  \/ GenBegin
  \/ Spawn
  \/ \E w \in 1..Len(guards) : WorkerStep(w)
  \/ Join
  \/ Return
  \/ Raster

Spec == Init /\ [][Next]_vars

(***************************************************************************)
(* The partitioner alone: gen_mandelbrot up to the end of its spawn loop,  *)
(* over every data_size in 0..MaxPixels and thread count in 1..MaxWorkers. *)
(***************************************************************************)
PartInit ==
  /\ config \in { Config(1, 50, 2, Components, ScenarioPalette, w, 1) :
                    w \in 0..MaxPixels }
  /\ cpus \in 1..MaxWorkers
  /\ pc = "validated"
  /\ size = [width |-> 0, height |-> 0]
  /\ data_size = 0 /\ thread_work = 0 /\ thread_start = 0 /\ thread_end = 0
  /\ t = 0 /\ guards = << >> /\ data = << >> /\ joined = 0
  /\ imgdata = << >> /\ ry = 0 /\ rx = 0 /\ reads = << >> /\ output = << >>
  /\ mb = NoCall /\ val = 0 /\ rgb = << >>

PartNext == GenBegin \/ Spawn

PartSpec == PartInit /\ [][PartNext]_vars

(***************************************************************************)
(* mandelbrot alone, one loop test per step, over the lattice points       *)
(* (cx, cy) in -MaxCoord..MaxCoord squared and limits 0..MaxLimit.         *)
(***************************************************************************)
EvalInit ==
  /\ mb \in { [cx |-> cx, cy |-> cy, limit |-> limit,
               x |-> cx, y |-> cy, count |-> 0, pc |-> "loop"] :
               cx \in -MaxCoord..MaxCoord, cy \in -MaxCoord..MaxCoord,
               limit \in 0..MaxLimit }
  /\ config = Config(1, 50, 2, Components, ScenarioPalette, 0, 0)
  /\ cpus = 1
  /\ pc = "idle"
  /\ size = [width |-> 0, height |-> 0]
  /\ data_size = 0 /\ thread_work = 0 /\ thread_start = 0 /\ thread_end = 0
  /\ t = 0 /\ guards = << >> /\ data = << >> /\ joined = 0
  /\ imgdata = << >> /\ ry = 0 /\ rx = 0 /\ reads = << >> /\ output = << >>
  /\ val = 0 /\ rgb = << >>

\* mandelbrot, lines 61-73: one test of the while condition, then the break, a
\* completed iteration, or the return of count
MandelIter ==
  /\ mb.pc = "loop"
  /\ mb' = IF mb.count < mb.limit /\ ~Escaped(mb.x, mb.y)
             THEN LET s == MandelBody(mb, mb.cx, mb.cy)
                  IN  [mb EXCEPT !.x = s.x, !.y = s.y, !.count = s.count]
             ELSE [mb EXCEPT !.pc = "return"]
  /\ UNCHANGED << config, cpus, pc, size, data_size, thread_work, thread_start,
                  thread_end, t, guards, data, joined, imgdata, ry, rx, reads,
                  output, val, rgb >>

\* The function runs as straight-line code of one thread: a step that can be
\* taken is taken.
EvalSpec == EvalInit /\ [][MandelIter]_vars /\ WF_vars(MandelIter)

(***************************************************************************)
(* color_for_val_with_config alone, over counts 0..MaxCount+1, two limits, *)
(* power-of-two color_steps and every palette of 0..MaxPalette colours.    *)
(* On the empty palette the call returns only for val = limit.             *)
(***************************************************************************)
Colours == { << 0, 0, 0 >>, << 255, 255, 255 >>, << 10, 100, 200 >> }

Palettes == UNION { [1..n -> Colours] : n \in 0..MaxPalette }

ColorInit ==
  /\ config \in { Config(1, limit, 2 ^ e, Components, palette, 0, 0) :
                    limit \in {MaxCount \div 2, 10},
                    e \in 0..MaxStepExp, palette \in Palettes }
  /\ val \in 0..(MaxCount + 1)
  /\ rgb = << >>
  /\ pc = "color"
  /\ cpus = 1
  /\ size = [width |-> 0, height |-> 0]
  /\ data_size = 0 /\ thread_work = 0 /\ thread_start = 0 /\ thread_end = 0
  /\ t = 0 /\ guards = << >> /\ data = << >> /\ joined = 0
  /\ imgdata = << >> /\ ry = 0 /\ rx = 0 /\ reads = << >> /\ output = << >>
  /\ mb = NoCall

\* One call color_for_val_with_config(val, &config), as main makes it at line 301
ColorCall ==
  /\ pc = "color"
  /\ ~ColorPanics(val, config)
  /\ rgb' = color_for_val_with_config(val, config)
  /\ pc' = "colored"
  /\ UNCHANGED << config, cpus, size, data_size, thread_work, thread_start,
                  thread_end, t, guards, data, joined, imgdata, ry, rx, reads,
                  output, mb, val >>

ColorSpec == ColorInit /\ [][ColorCall]_vars

(***************************************************************************)
(* Properties.                                                             *)
(***************************************************************************)
Spawned(k) == k \in 1..Len(guards)

AllSpawned == pc = "gen" /\ t = cpus

\* main holds the Field gen_mandelbrot returned
Returned == pc \in {"raster", "done", "panic_index", "panic_palette"}

\* C1: the ranges gen_mandelbrot hands to its threads start at 0, satisfy
\* start <= end <= data_size, each start where the one before ended, and end at
\* data_size; so every index of [0, data_size) is in exactly one range, and a
\* range that starts at or past data_size is empty.  (PartSpec)
C1_PartitionRanges ==
  pc = "gen" =>
    /\ data_size = size.width * size.height
    /\ Len(guards) = t
    /\ Len(guards) >= 1 => guards[1].thread_start = 0
    /\ \A k \in 1..Len(guards) :
         /\ guards[k].thread_start <= guards[k].thread_end
         /\ guards[k].thread_end <= data_size
         /\ guards[k].thread_start >= data_size
              => guards[k].thread_start = guards[k].thread_end
    /\ \A k \in 1..(Len(guards) - 1) :
         guards[k + 1].thread_start = guards[k].thread_end
    /\ t = cpus =>
         /\ guards[cpus].thread_end = data_size
         /\ \A j \in 0..(data_size - 1) :
              Cardinality({ k \in 1..cpus :
                 guards[k].thread_start <= j /\ j < guards[k].thread_end }) = 1

\* More threads than pixels: every thread is spawned, one of them with an empty
\* range past the end, one with a pixel.
C1_Witness ==
  /\ AllSpawned
  /\ cpus > data_size
  /\ \E k \in 1..cpus : guards[k].thread_start < guards[k].thread_end
  /\ \E k \in 1..cpus : /\ guards[k].thread_start = data_size
                        /\ guards[k].thread_end = data_size

\* The Field of the single-worker run: the evaluator's result for pixel
\* 0, 1, ..., width * height - 1, in this order.
SingleWorkerField ==
  [j \in 1..(size.width * size.height) |->
     PixelValue(j - 1, size, config.window, config.limit)]

\* C2: whatever the thread count and the interleaving of the threads, the Field
\* gen_mandelbrot returns is the single-worker Field: width * height long, its
\* element i the evaluator's result for pixel i.  (Spec)
C2_FieldIsSingleWorkerField ==
  Returned => /\ Len(imgdata) = size.width * size.height
              /\ imgdata = SingleWorkerField

\* The 4 by 4 Field has been returned by seven threads.
C2_Witness ==
  /\ Returned
  /\ cpus = 7
  /\ Len(imgdata) = 16

RECURSIVE Iterate(_, _, _, _, _)
\* n times z -> z^2 + c applied to z = zx + i zy, c = cx + i cy
Iterate(zx, zy, cx, cy, n) ==
  IF n = 0
    THEN [x |-> zx, y |-> zy]
    ELSE Iterate(zx * zx - zy * zy + cx, 2 * zx * zy + cy, cx, cy, n - 1)

\* The n-th iterate of z -> z^2 + c from z0 = c
Orbit(cx, cy, n) == Iterate(cx, cy, cx, cy, n)

Diverged(z) == z.x * z.x + z.y * z.y > 4

\* What mandelbrot has returned, once it has
EvalResult ==
  mb.pc = "return" =>
    /\ mb.count \in 0..mb.limit
    /\ \A k \in 0..(mb.count - 1) : ~Diverged(Orbit(mb.cx, mb.cy, k))
    /\ mb.count < mb.limit => Diverged(Orbit(mb.cx, mb.cy, mb.count))
    /\ mb.cx * mb.cx + mb.cy * mb.cy > 4 => mb.count \in {0, 1}
    /\ mb.count = mb.limit =>
         \A k \in 0..(mb.limit - 1) : ~Diverged(Orbit(mb.cx, mb.cy, k))
    /\ mb.count = mandelbrot(mb.cx, mb.cy, mb.limit)

\* C3: mandelbrot returns, and what it returns is in [0, limit], is the number
\* of iterates z0 = c, z1, ... before the first with x*x + y*y > 4, is 0 or 1
\* for a c with cx*cx + cy*cy > 4, and is limit only when none of the limit
\* iterates z0 .. z(limit-1) diverged.  (EvalSpec)
C3_EvaluatorReturns == [](EvalResult) /\ <>(mb.pc = "return")

\* A point that diverges after some iterations, within the budget
C3_Witness ==
  /\ mb.pc = "return"
  /\ 1 < mb.count
  /\ mb.count < mb.limit

\* The palette formula of the spec: t = (count mod colorSteps) * paletteLength
\* / colorSteps as the fraction tnum / steps, left = floor(t) mod
\* paletteLength, right = (left + 1) mod paletteLength, frac = t - floor(t),
\* each channel the truncation of left + (right - left) * frac.
SpecColor(count, limit, steps, palette) ==
  IF count = limit
    THEN << 0, 0, 0 >>
    ELSE LET n == Len(palette)
             tnum == (count % steps) * n
             floor_t == tnum \div steps
             left == floor_t % n
             right == (left + 1) % n
             fracnum == tnum - floor_t * steps
         IN  [c \in 1..3 |->
                (palette[left + 1][c] * steps
                   + (palette[right + 1][c] - palette[left + 1][c]) * fracnum)
                \div steps]

\* C4: color_for_val_with_config returns what the palette formula of the spec
\* gives: (0,0,0) when count = limit, whatever the palette (the empty one
\* included), and otherwise the truncated interpolation between palette entries
\* left and right, both valid indices, every channel a u8; on the palette
\* black, white with 2 steps and limit 10 it maps 0 to black, 1 to white and 10
\* to black.  (ColorSpec)
C4_ColorIsSpecFormula ==
  pc = "colored" =>
    LET n == Len(config.color_palette)
        tnum == PaletteT(val, config.color_steps, n)
    IN  /\ val = config.limit => rgb = << 0, 0, 0 >>
        /\ val # config.limit =>
             /\ n > 0
             /\ PaletteLeft(tnum, config.color_steps, n) \in 0..(n - 1)
             /\ PaletteRight(PaletteLeft(tnum, config.color_steps, n), n)
                  \in 0..(n - 1)
        /\ rgb = SpecColor(val, config.limit, config.color_steps,
                           config.color_palette)
        /\ \A c \in 1..3 : rgb[c] \in 0..255
        /\ (/\ config.color_palette = ScenarioPalette
            /\ config.color_steps = 2
            /\ config.limit = 10) =>
             /\ val = 0 => rgb = << 0, 0, 0 >>
             /\ val = 1 => rgb = << 255, 255, 255 >>
             /\ val = 10 => rgb = << 0, 0, 0 >>

\* A count strictly between two palette entries has been coloured
C4_Witness ==
  /\ pc = "colored"
  /\ val # config.limit
  /\ Len(config.color_palette) = 3
  /\ (PaletteT(val, config.color_steps, 3) % config.color_steps) # 0
  /\ rgb \notin Colours

\* C5: the colour is cyclic in the count: when count + steps < limit, count and
\* count + steps get the same colour.  (ColorSpec)
C5_ColorIsCyclic ==
  (pc = "colored" /\ val + config.color_steps < config.limit) =>
     rgb = color_for_val_with_config(val + config.color_steps, config)

\* A count with count + steps < limit has got a colour of the palette
C5_Witness ==
  /\ pc = "colored"
  /\ val + config.color_steps < config.limit
  /\ config.color_steps = 4
  /\ val = 3
  /\ rgb # << 0, 0, 0 >>

\* The set of the elements of a sequence
Range(q) == { q[k] : k \in 1..Len(q) }

\* C6: on every grid of width > 0, idx2point then point2idx gives back every
\* index of [0, width * height); and the raster loop of main reads imgdata in
\* bounds only, no index twice, and by its end every index once.  (Spec)
C6_RoundTripAndRaster ==
  /\ (pc \notin {"start", "validated"} /\ size.width > 0) =>
       \A index \in 0..(size.width * size.height - 1) :
         point2idx(idx2point(index, size.width), size.width) = index
  /\ pc # "panic_index"
  /\ \A k \in 1..Len(reads) : reads[k] \in 0..(Len(imgdata) - 1)
  /\ Cardinality(Range(reads)) = Len(reads)
  /\ pc = "done" => Range(reads) = 0..(Len(imgdata) - 1)

\* The raster loop has been through the 16 pixels of the 4 by 4 grid
C6_Witness ==
  /\ pc = "done"
  /\ size = [width |-> 4, height |-> 4]
  /\ Len(reads) = 16
  /\ Len(output) = 16

\* The scenario: a 4 by 4 grid over the window of origin (-2,-2) and size (4,4),
\* limit 50
Scenario ==
  /\ size = [width |-> 4, height |-> 4]
  /\ config.window = [origin |-> [x |-> -2, y |-> -2],
                      size |-> [width |-> 4, height |-> 4]]
  /\ config.limit = 50

\* C7: in the Field of the scenario the corner pixels 0, 3, 12 and 15 have the
\* counts 0, 0, 0 and 1, and the pixel the mapping sends to the window point
\* (0,0), which is pixel 10, has the count 50.  (Spec)
C7_ScenarioField ==
  (Returned /\ Scenario) =>
    /\ imgdata[0 + 1] = 0
    /\ imgdata[3 + 1] = 0
    /\ imgdata[12 + 1] = 0
    /\ imgdata[15 + 1] = 1
    /\ WindowPoint(idx2point(10, 4), size, config.window) = [x |-> 0, y |-> 0]
    /\ \A j \in 0..15 :
         WindowPoint(idx2point(j, 4), size, config.window) = [x |-> 0, y |-> 0]
           => imgdata[j + 1] = 50

\* main has the Field of the scenario, generated by seven threads
C7_Witness ==
  /\ pc = "done"
  /\ Scenario
  /\ cpus = 7
  /\ Len(imgdata) = 16

\* The configuration errors the spec lists: a limit over the bound, a palette
\* entry whose component count is not the configured one, an empty palette
InvalidConfig(conf) ==
  \/ conf.limit > LimitCap
  \/ \E k \in 1..Len(conf.color_palette) :
       Len(conf.color_palette[k]) # conf.color_components
  \/ Len(conf.color_palette) = 0

\* C8: with a configuration error main never gets past validate_config: it
\* neither generates nor colours.  (Spec)
C8_ConfigErrorsStopMain ==
  InvalidConfig(config) => pc \in {"start", "panic_config"}

\* C9: with a grid width or height of zero, data_size is 0, every thread gets
\* the empty range [0, 0), pushes nothing and does not panic (idx2point never
\* divides by the zero width), and the Field is empty at every thread count.
\* (Spec)
C9_DegenerateGeometry ==
  (pc \notin {"start", "validated", "panic_config"}
     /\ (size.width = 0 \/ size.height = 0)) =>
    /\ data_size = 0
    /\ \A k \in 1..Len(guards) :
         /\ guards[k].thread_start = 0
         /\ guards[k].thread_end = 0
         /\ guards[k].thread_data = << >>
         /\ guards[k].state # "panicked"
    /\ pc # "panic_join"
    /\ data = << >>
    /\ imgdata = << >>
    /\ reads = << >>

\* Seven threads have returned the empty Field of a grid 0 wide and 4 high
C9_Witness ==
  /\ Returned
  /\ size = [width |-> 0, height |-> 4]
  /\ cpus = 7
  /\ Len(guards) = 7
  /\ imgdata = << >>

RECURSIVE ConcatData(_, _)
\* thread_data of the guards 1..k, in this order
ConcatData(gs, k) ==
  IF k = 0 THEN << >> ELSE ConcatData(gs, k - 1) \o gs[k].thread_data

\* C10 as stated: nothing is appended to the Field while a thread is running
C10_BarrierBeforeAppend ==
  joined > 0 => \A k \in 1..Len(guards) : guards[k].state # "running"

\* C10, amended: a thread's sub-sequence is appended only after that thread has
\* ended, whole, and in spawn order (later threads may still be running); and
\* gen_mandelbrot returns only when every thread has ended.  (Spec)
C10_JoinBeforeAppend ==
  /\ joined \in 0..Len(guards)
  /\ \A k \in 1..joined :
       /\ guards[k].state = "finished"
       /\ Len(guards[k].thread_data)
            = guards[k].thread_end - guards[k].thread_start
  /\ data = ConcatData(guards, joined)
  /\ Returned =>
       /\ Len(guards) = cpus
       /\ joined = cpus
       /\ \A k \in 1..cpus : guards[k].state = "finished"

\* The first thread's pixels are in the Field while a later thread is running
C10_Witness ==
  /\ joined >= 1
  /\ Len(data) > 0
  /\ \E k \in 1..Len(guards) : guards[k].state = "running"

====
